---- MODULE Spec2Model ----
(***************************************************************************)
(* Model of the time-series-filter crate (src/src/lib.rs): the integer     *)
(* EWMA filter IntSeriesEwmaFilter<T>, its constructors, push_sample and   *)
(* the two read accessors, over fixed-width integer types T.               *)
(*                                                                         *)
(* An integer type is a record [bits, signed].  The operators +, - and *   *)
(* of a primitive integer either panic on overflow (a build with overflow  *)
(* checks, the debug profile) or wrap modulo 2^bits (a build without, the  *)
(* release profile).  Both builds are modelled: overflow_checks is chosen  *)
(* by Init and never changes.  Division by zero, and the signed division   *)
(* MIN / -1, panic in every build.                                         *)
(*                                                                         *)
(* FloatSeriesEwmaFilter<T>, the same algorithm over IEEE floating point,  *)
(* is not modelled.                                                        *)
(***************************************************************************)
EXTENDS Integers, Sequences, FiniteSets, TLC

VARIABLES
    int_type,        \* the type parameter T of IntSeriesEwmaFilter<T>
    overflow_checks, \* TRUE: +, -, * panic on overflow; FALSE: they wrap
    usize_bits,      \* width of usize, the type of sample_count
    filter,          \* the IntSeriesEwmaFilter value (a record of its fields)
    panicked,        \* the program has stopped in an arithmetic panic
    ret,             \* <<x>>: the value the last push_sample returned; <<>>: none
    observed,        \* what the caller's last read since the last push returned:
                     \* <<"average", x>>, <<"range", lo, hi>>, or <<>> for no read
    pushes,          \* history: number of push_sample calls made so far
    last_value,      \* history: <<v>>, the argument of the last push_sample
    overflowed,      \* history: some +, -, * or / has overflowed so far
    panic_cause,     \* "overflow", "divide_by_zero" or "divide_overflow" once
                     \* panicked, "" before
    extremes,        \* <<lo, hi>>: least and greatest value the envelope driver
                     \* has pushed
    seed_value,      \* <<s>>: the first value the constant-input driver pushed
    constant_k,      \* <<k>>: the value the constant-input driver repeats
    twin             \* a second filter, driven in lockstep by the pair driver

vars == <<int_type, overflow_checks, usize_bits, filter, panicked, ret,
          observed, pushes, last_value, overflowed, panic_cause, extremes,
          seed_value, constant_k, twin>>

-----------------------------------------------------------------------------
(* Bounds of the model. *)

\* Samples pushed by the general driver are 0 .. MaxSample, or an end of the
\* type's range.
MaxSample == 2

\* Explicit weights passed to new(): numerators up to MaxNumerator and
\* denominators up to MaxDenominator (and their negatives for a signed type).
MaxNumerator == 2
MaxDenominator == 3

\* The general driver runs with usize scaled down to CountBits bits, so that
\* the overflow of sample_count is within reach of the model checker.
CountBits == 2

\* The general driver makes at most MaxPushes calls of push_sample: one more
\* than the scaled usize can count, and one more to see the push that follows.
MaxPushes == 5

-----------------------------------------------------------------------------
(* Fixed-width integer types (T: PrimInt). *)

U8 == [bits |-> 8, signed |-> FALSE]
I8 == [bits |-> 8, signed |-> TRUE]
U16 == [bits |-> 16, signed |-> FALSE]
I16 == [bits |-> 16, signed |-> TRUE]

TMin(T) == IF T.signed THEN -(2 ^ (T.bits - 1)) ELSE 0
TMax(T) == IF T.signed THEN 2 ^ (T.bits - 1) - 1 ELSE 2 ^ T.bits - 1

InRange(T, x) == TMin(T) <= x /\ x <= TMax(T)

\* Two's complement wrap-around of the mathematical value x into T.
Wrap(T, x) ==
    LET m == 2 ^ T.bits
        r == x % m
    IN IF T.signed /\ r > TMax(T) THEN r - m ELSE r

Abs(x) == IF x < 0 THEN -x ELSE x

\* A division that rounds to the nearest integer instead of truncating.
TruncDiv_Nearest(a, b) ==
    LET q == (2 * Abs(a) + Abs(b)) \div (2 * Abs(b))
    IN IF (a < 0) = (b < 0) THEN q ELSE -q

\* Integer division of the primitive types: the quotient truncated toward zero.
TruncDiv(a, b) ==
    LET q == Abs(a) \div Abs(b)
    IN IF (a < 0) = (b < 0) THEN q ELSE -q

\* The outcome of a +, - or * on T whose mathematical result is exact:
\* val is the value produced, ovf says the result did not fit, fault says
\* the operation panicked, and cause names the panic.
Arith(T, exact) ==
    IF InRange(T, exact)
    THEN [val |-> exact, ovf |-> FALSE, fault |-> FALSE, cause |-> ""]
    ELSE [val |-> Wrap(T, exact), ovf |-> TRUE, fault |-> overflow_checks,
          cause |-> IF overflow_checks THEN "overflow" ELSE ""]

\* A division that yields zero for a zero divisor instead of panicking.
Div_ZeroYieldsZero(T, a, b) ==
    IF b = 0
    THEN [val |-> 0, ovf |-> FALSE, fault |-> FALSE, cause |-> ""]
    ELSE IF T.signed /\ a = TMin(T) /\ b = -1
    THEN [val |-> 0, ovf |-> TRUE, fault |-> TRUE, cause |-> "divide_overflow"]
    ELSE [val |-> TruncDiv(a, b), ovf |-> FALSE, fault |-> FALSE, cause |-> ""]

\* The outcome of a / b on T.
Div(T, a, b) ==
    IF b = 0
    THEN [val |-> 0, ovf |-> FALSE, fault |-> TRUE, cause |-> "divide_by_zero"]
    ELSE IF T.signed /\ a = TMin(T) /\ b = -1
    THEN [val |-> 0, ovf |-> TRUE, fault |-> TRUE, cause |-> "divide_overflow"]
    ELSE [val |-> TruncDiv(a, b), ovf |-> FALSE, fault |-> FALSE, cause |-> ""]

\* x += (alpha_numerator * (new_value - x)) / alpha_denominator, evaluated
\* left to right as the code does: the subtraction, the multiplication, the
\* division, the addition.  A panic in one step skips the later ones.
Blend(T, n, d, new_value, x) ==
    LET diff == Arith(T, new_value - x)
        prod == Arith(T, n * diff.val)
        quot == Div(T, prod.val, d)
        sum  == Arith(T, x + quot.val)
    IN  IF diff.fault
        THEN [val |-> x, ovf |-> TRUE, fault |-> TRUE, cause |-> diff.cause]
        ELSE IF prod.fault
        THEN [val |-> x, ovf |-> TRUE, fault |-> TRUE, cause |-> prod.cause]
        ELSE IF quot.fault
        THEN [val |-> x, ovf |-> diff.ovf \/ prod.ovf \/ quot.ovf,
              fault |-> TRUE, cause |-> quot.cause]
        ELSE IF sum.fault
        THEN [val |-> x, ovf |-> TRUE, fault |-> TRUE, cause |-> sum.cause]
        ELSE [val |-> sum.val,
              ovf |-> diff.ovf \/ prod.ovf \/ sum.ovf,
              fault |-> FALSE, cause |-> ""]

-----------------------------------------------------------------------------
(* IntSeriesEwmaFilter<T>. *)

DefaultNumerator == 1
DefaultDenominator == 100

\* A constructor that starts the average at the numerator instead of zero.
New_AverageFromWeight(alpha_numerator, alpha_denominator) ==
    [sample_count      |-> 0,
     alpha_numerator   |-> alpha_numerator,
     alpha_denominator |-> alpha_denominator,
     local_min         |-> 0,
     local_max         |-> 0,
     average           |-> alpha_numerator]

New(alpha_numerator, alpha_denominator) ==
    [sample_count      |-> 0,
     alpha_numerator   |-> alpha_numerator,
     alpha_denominator |-> alpha_denominator,
     local_min         |-> 0,
     local_max         |-> 0,
     average           |-> 0]

\* A default() with a weight of one tenth.
Default_Tenth == New(DefaultNumerator, DefaultDenominator \div 10)

Default == New(DefaultNumerator, DefaultDenominator)

\* push_sample runs as a sequence of statements over a machine state m:
\* the filter under mutation, whether a statement has panicked (the later
\* statements then do not run), and whether an operation overflowed.
Start(self) ==
    [self |-> self, panicked |-> FALSE, overflowed |-> FALSE, cause |-> ""]

After(m, field, r) ==
    IF r.fault
    THEN [m EXCEPT !.panicked = TRUE, !.overflowed = m.overflowed \/ r.ovf,
                   !.cause = r.cause]
    ELSE [m EXCEPT !.self = [m.self EXCEPT ![field] = r.val],
                   !.overflowed = m.overflowed \/ r.ovf]

\* A seeding branch that forgets local_min.
Seed_NoMin(m, new_value) ==
    [m EXCEPT !.self = [m.self EXCEPT !.local_max = new_value,
                                      !.average = new_value]]

\* The seeding branch (sample_count == 0).
Seed(m, new_value) ==
    [m EXCEPT !.self = [m.self EXCEPT !.local_min = new_value,
                                      !.local_max = new_value,
                                      !.average = new_value]]

\* An average update with numerator and denominator exchanged.
UpdateAverage_SwappedWeight(m, new_value) ==
    IF m.panicked THEN m
    ELSE After(m, "average",
               Blend(int_type, m.self.alpha_denominator, m.self.alpha_numerator,
                     new_value, m.self.average))

\* self.average += (numerator * (new_value - self.average)) / denominator
UpdateAverage(m, new_value) ==
    IF m.panicked THEN m
    ELSE After(m, "average",
               Blend(int_type, m.self.alpha_numerator, m.self.alpha_denominator,
                     new_value, m.self.average))

\* A local_max statement without the snap: a new maximum is faded toward
\* like any other value above the average.
UpdateLocalMax_NoSnap(m, new_value) ==
    IF m.panicked THEN m
    ELSE IF new_value > m.self.average
    THEN After(m, "local_max",
               Blend(int_type, m.self.alpha_numerator, m.self.alpha_denominator,
                     new_value, m.self.local_max))
    ELSE m

\* The local_max statement: snap to a new maximum, else fade toward a value
\* above the (already updated) average, else leave alone.
UpdateLocalMax(m, new_value) ==
    IF m.panicked THEN m
    ELSE IF new_value > m.self.local_max
    THEN [m EXCEPT !.self = [m.self EXCEPT !.local_max = new_value]]
    ELSE IF new_value > m.self.average
    THEN After(m, "local_max",
               Blend(int_type, m.self.alpha_numerator, m.self.alpha_denominator,
                     new_value, m.self.local_max))
    ELSE m

\* A local_min statement that fades toward every value it does not snap to,
\* whichever side of the average the value is on.
UpdateLocalMin_AlwaysFade(m, new_value) ==
    IF m.panicked THEN m
    ELSE IF new_value < m.self.local_min
    THEN [m EXCEPT !.self = [m.self EXCEPT !.local_min = new_value]]
    ELSE After(m, "local_min",
               Blend(int_type, m.self.alpha_numerator, m.self.alpha_denominator,
                     new_value, m.self.local_min))

\* A local_min statement whose fade subtracts the wrong way round, and so
\* moves local_min away from the value.
UpdateLocalMin_AwayFromValue(m, new_value) ==
    IF m.panicked THEN m
    ELSE IF new_value < m.self.local_min
    THEN [m EXCEPT !.self = [m.self EXCEPT !.local_min = new_value]]
    ELSE IF new_value < m.self.average
    THEN After(m, "local_min",
               Blend(int_type, m.self.alpha_numerator, m.self.alpha_denominator,
                     2 * m.self.local_min - new_value, m.self.local_min))
    ELSE m

\* The local_min statement, the mirror image.
UpdateLocalMin(m, new_value) ==
    IF m.panicked THEN m
    ELSE IF new_value < m.self.local_min
    THEN [m EXCEPT !.self = [m.self EXCEPT !.local_min = new_value]]
    ELSE IF new_value < m.self.average
    THEN After(m, "local_min",
               Blend(int_type, m.self.alpha_numerator, m.self.alpha_denominator,
                     new_value, m.self.local_min))
    ELSE m

\* self.sample_count += 1, on usize.
IncrementCount(m) ==
    IF m.panicked THEN m
    ELSE After(m, "sample_count",
               Arith([bits |-> usize_bits, signed |-> FALSE],
                     m.self.sample_count + 1))

\* A push_sample that hands back the average it held on entry.
Returned_Stale(before, m) == IF m.panicked THEN <<>> ELSE <<before.self.average>>

\* The value push_sample hands back: self.average, read after the update
\* (before is the machine state on entry, m the one after the last statement).
Returned(before, m) == IF m.panicked THEN <<>> ELSE <<m.self.average>>

\* push_sample(&mut self, new_value) -> T
PushSample(self, new_value) ==
    LET m0 == Start(self)
        m1 == IF self.sample_count = 0
              THEN Seed(m0, new_value)
              ELSE UpdateLocalMin(
                       UpdateLocalMax(UpdateAverage(m0, new_value), new_value),
                       new_value)
        m2 == IncrementCount(m1)
    IN  [self       |-> m2.self,
         ret        |-> Returned(m0, m2),
         panicked   |-> m2.panicked,
         overflowed |-> m2.overflowed,
         cause      |-> m2.cause]

\* An ewma_average that counts its calls in sample_count.
EwmaAverage_Counting(self) ==
    [self |-> [self EXCEPT !.sample_count = self.sample_count + 1],
     ret |-> <<self.average>>]

\* ewma_average(&self) -> T and local_range(&self) -> Range<T>: the filter
\* after the call, and the value returned.
EwmaAverage(self) == [self |-> self, ret |-> <<self.average>>]

LocalRange(self) == [self |-> self, ret |-> <<self.local_min, self.local_max>>]

\* The weight is a proper fraction: denominator != 0 and 0 < n/d < 1.
ValidWeight(self) ==
    /\ self.alpha_denominator # 0
    /\ self.alpha_numerator * self.alpha_denominator > 0
    /\ Abs(self.alpha_numerator) < Abs(self.alpha_denominator)

-----------------------------------------------------------------------------
(* The general driver: any constructor, any weight, any samples. *)

Samples(T) ==
    (0 .. MaxSample) \cup {TMin(T), TMax(T)}

Numerators(T) == {x \in -1 .. MaxNumerator : InRange(T, x)}
Denominators(T) == {x \in {-MaxDenominator} \cup (0 .. MaxDenominator) : InRange(T, x)}

Constructed(T) ==
    {Default} \cup {New(n, d) : n \in Numerators(T), d \in Denominators(T)}

NoTwin == [self |-> New(0, 0), ret |-> <<>>]

Fresh ==
    /\ panicked = FALSE
    /\ ret = <<>>
    /\ observed = <<>>
    /\ pushes = 0
    /\ last_value = <<>>
    /\ overflowed = FALSE
    /\ panic_cause = ""
    /\ extremes = <<>>
    /\ seed_value = <<>>

Init ==
    /\ int_type \in {U8, I8}
    /\ overflow_checks \in BOOLEAN
    /\ usize_bits = CountBits
    /\ filter \in Constructed(int_type)
    /\ constant_k = <<>>
    /\ twin = NoTwin
    /\ Fresh

\* One call of push_sample(new_value) on the filter.
Call(new_value) ==
    LET r == PushSample(filter, new_value)
    IN  /\ filter' = r.self
        /\ ret' = r.ret
        /\ panicked' = r.panicked
        /\ overflowed' = (overflowed \/ r.overflowed)
        /\ panic_cause' = r.cause
        /\ pushes' = pushes + 1
        /\ last_value' = <<new_value>>
        /\ observed' = <<>>
        /\ UNCHANGED <<int_type, overflow_checks, usize_bits, constant_k>>

Push ==
    /\ ~panicked
    /\ pushes < MaxPushes
    /\ \E v \in Samples(int_type) : Call(v)
    /\ UNCHANGED <<extremes, seed_value, twin>>

ReadAverage ==
    /\ ~panicked
    /\ LET r == EwmaAverage(filter)
       IN  /\ filter' = r.self
           /\ observed' = <<"average">> \o r.ret
    /\ UNCHANGED <<int_type, overflow_checks, usize_bits, panicked, ret,
                   pushes, last_value, overflowed, panic_cause, extremes,
                   seed_value, constant_k, twin>>

ReadRange ==
    /\ ~panicked
    /\ LET r == LocalRange(filter)
       IN  /\ filter' = r.self
           /\ observed' = <<"range">> \o r.ret
    /\ UNCHANGED <<int_type, overflow_checks, usize_bits, panicked, ret,
                   pushes, last_value, overflowed, panic_cause, extremes,
                   seed_value, constant_k, twin>>

Next == Push \/ ReadAverage \/ ReadRange

Spec == Init /\ [][Next]_vars

-----------------------------------------------------------------------------
(* The ramp driver: tests::integer_basic.  The test runs on u32; the ramp  *)
(* is run here on the 16-bit types, the narrowest that hold 999, with the  *)
(* narrowest usize.  No value of the run comes near either type's limits.  *)

RampLength == 1000

InitRamp ==
    /\ int_type \in {U16, I16}
    /\ overflow_checks \in BOOLEAN
    /\ usize_bits = 16
    /\ filter \in {Default, New(1, 100)}
    /\ constant_k = <<>>
    /\ twin = NoTwin
    /\ Fresh

\* for i in 0..1000 { tracko.push_sample(i); }
RampPush ==
    /\ ~panicked
    /\ pushes < RampLength
    /\ Call(pushes)
    /\ UNCHANGED <<extremes, seed_value, twin>>

NextRamp == RampPush \/ ReadAverage \/ ReadRange

SpecRamp == InitRamp /\ [][NextRamp]_vars

-----------------------------------------------------------------------------
(* The pair driver: a filter built by default() and one built by           *)
(* new(1, 100), fed the same samples.                                      *)

InitPair ==
    /\ int_type \in {U8, I8}
    /\ overflow_checks \in BOOLEAN
    /\ usize_bits = CountBits
    /\ filter = Default
    /\ constant_k = <<>>
    /\ twin = [self |-> New(1, 100), ret |-> <<>>]
    /\ Fresh

PairPush ==
    /\ ~panicked
    /\ pushes < MaxPushes
    /\ \E v \in Samples(int_type) :
          /\ Call(v)
          /\ LET r == PushSample(twin.self, v)
             IN  twin' = [self |-> r.self, ret |-> r.ret]
    /\ UNCHANGED <<extremes, seed_value>>

NextPair == PairPush

SpecPair == InitPair /\ [][NextPair]_vars

-----------------------------------------------------------------------------
(* The constant-input driver: a filter with a proper-fraction weight is    *)
(* seeded with one value and then fed the same value k on every push.      *)
(* usize has its narrowest width, so sample_count does not overflow within *)
(* MaxConstPushes pushes.                                                  *)

MaxConstPushes == 140

InitConst ==
    /\ int_type \in {U8, I8}
    /\ overflow_checks \in BOOLEAN
    /\ usize_bits = 16
    /\ filter \in {f \in Constructed(int_type) : ValidWeight(f)}
    /\ \E k \in Samples(int_type) : constant_k = <<k>>
    /\ twin = NoTwin
    /\ Fresh

ConstSeed ==
    /\ ~panicked
    /\ pushes = 0
    /\ \E s \in Samples(int_type) :
          /\ Call(s)
          /\ seed_value' = <<s>>
    /\ UNCHANGED <<extremes, twin>>

ConstPush ==
    /\ ~panicked
    /\ pushes >= 1
    /\ pushes < MaxConstPushes
    /\ Call(constant_k[1])
    /\ UNCHANGED <<extremes, seed_value, twin>>

NextConst == ConstSeed \/ ConstPush

SpecConst == InitConst /\ [][NextConst]_vars

-----------------------------------------------------------------------------
(* The envelope driver: a filter with a proper-fraction weight is pushed   *)
(* any samples, and the least and greatest sample pushed are recorded.     *)

Least(a, b) == IF a <= b THEN a ELSE b
Greatest(a, b) == IF a >= b THEN a ELSE b

InitEnvelope ==
    /\ int_type \in {U8, I8}
    /\ overflow_checks \in BOOLEAN
    /\ usize_bits = CountBits
    /\ filter \in {f \in Constructed(int_type) : ValidWeight(f)}
    /\ constant_k = <<>>
    /\ twin = NoTwin
    /\ Fresh

EnvelopePush ==
    /\ ~panicked
    /\ pushes < MaxPushes
    /\ \E v \in Samples(int_type) :
          /\ Call(v)
          /\ extremes' = IF pushes = 0
                         THEN <<v, v>>
                         ELSE <<Least(extremes[1], v), Greatest(extremes[2], v)>>
    /\ UNCHANGED <<seed_value, twin>>

NextEnvelope == EnvelopePush

SpecEnvelope == InitEnvelope /\ [][NextEnvelope]_vars

-----------------------------------------------------------------------------
(* The update rule over the unbounded integers, for comparison. *)

\* x + (n * (new_value - x)) / d, the quotient truncated toward zero.
ExactBlend(n, d, new_value, x) == x + TruncDiv(n * (new_value - x), d)

\* average, local_min and local_max after a steady-state push of new_value
\* on self, computed without any limit of width.
ExactUpdate(self, new_value) ==
    LET n == self.alpha_numerator
        d == self.alpha_denominator
        a == ExactBlend(n, d, new_value, self.average)
    IN  [average |-> a,
         local_max |-> IF new_value > self.local_max THEN new_value
                       ELSE IF new_value > a
                       THEN ExactBlend(n, d, new_value, self.local_max)
                       ELSE self.local_max,
         local_min |-> IF new_value < self.local_min THEN new_value
                       ELSE IF new_value < a
                       THEN ExactBlend(n, d, new_value, self.local_min)
                       ELSE self.local_min]

-----------------------------------------------------------------------------
(* Properties. *)

Seeded == pushes >= 1 /\ ~panicked

\* x is closer to k than denominator / numerator.
Close(x, k) ==
    Abs(x - k) * Abs(filter.alpha_numerator) < Abs(filter.alpha_denominator)

\* C1. Bounding: with a proper-fraction weight and no arithmetic overflow so
\* far, after every push_sample that has returned, from the first one on,
\* local_min <= average <= local_max.
C1_Bounding ==
    (Seeded /\ ValidWeight(filter) /\ ~overflowed)
        => /\ filter.local_min <= filter.average
           /\ filter.average <= filter.local_max

\* C1 happens: after steady-state pushes without overflow the average lies
\* strictly inside an envelope whose upper bound has faded below the largest
\* sample pushed.
C1_Witness ==
    /\ Seeded /\ ValidWeight(filter) /\ ~overflowed
    /\ pushes >= 3
    /\ filter.local_min < filter.average
    /\ filter.average < filter.local_max
    /\ filter.local_max > last_value[1]

\* C2. Seeding: the first push_sample(v) on a fresh filter, whatever its
\* constructor and weight, returns v and leaves average, local_min and
\* local_max equal to v; ewma_average() then returns v and local_range()
\* returns v..v.
C2_Seeding ==
    pushes = 1 =>
        LET v == last_value[1]
        IN  /\ ~panicked
            /\ ret = <<v>>
            /\ filter.average = v
            /\ filter.local_min = v
            /\ filter.local_max = v
            /\ observed \in {<<>>, <<"average", v>>, <<"range", v, v>>}

\* C2 happens: a filter with a zero denominator has been seeded with a
\* nonzero value and its range read back.
C2_Witness ==
    /\ pushes = 1
    /\ filter.alpha_denominator = 0
    /\ last_value[1] # 0
    /\ Len(observed) = 3

\* A steady-state push of k would leave average, local_min and local_max as
\* they are: the filter has stopped moving under the constant input k.
AtFixpoint(k) ==
    LET r == PushSample(filter, k)
    IN  /\ ~r.panicked
        /\ r.self.average = filter.average
        /\ r.self.local_min = filter.local_min
        /\ r.self.local_max = filter.local_max

\* The distance between seed and constant, and its product with the
\* numerator, are representable in the sample type.
Fits(s, k) ==
    /\ InRange(int_type, k - s)
    /\ InRange(int_type, filter.alpha_numerator * (k - s))

C4_Snap ==
    [][(pushes' = pushes + 1 /\ pushes >= 1 /\ ~panicked')
          => LET v == last_value'[1]
             IN  /\ v > filter.local_max => filter'.local_max = v
                 /\ v < filter.local_min => filter'.local_min = v]_vars

\* C4 happens: the second push carried the type's largest value to a filter
\* whose bounds were below it, in the steady-state branch.
C4_Witness ==
    /\ pushes = 2 /\ ~panicked
    /\ filter.sample_count = 2
    /\ last_value[1] = TMax(int_type)
    /\ filter.local_min < TMax(int_type)
    /\ filter.local_max = TMax(int_type)
    /\ filter.average < filter.local_max

\* C5. Integer ramp: a filter with weight 1/100 pushed 0, 1, ..., 999 ends
\* with average 900 and range 0..999, and the reads return these.
C5_Ramp ==
    pushes = RampLength =>
        /\ ~panicked
        /\ ret = <<900>>
        /\ filter.average = 900
        /\ filter.local_min = 0
        /\ filter.local_max = 999
        /\ observed \in {<<>>, <<"average", 900>>, <<"range", 0, 999>>}

\* C5 happens: the ramp has been pushed to its end and the average read.
C5_Witness ==
    /\ pushes = RampLength
    /\ last_value = <<RampLength - 1>>
    /\ Len(observed) = 2

\* C6. Seeding is terminal: once a push_sample has returned, sample_count is
\* not 0, so that no later call takes the seeding branch.  Stated for the
\* filters with a proper-fraction weight.
C6_SeededForGood ==
    (Seeded /\ ValidWeight(filter)) => filter.sample_count # 0

\* C7. No mutation on read: a call of ewma_average() or local_range() leaves
\* every field of the filter unchanged, and a read repeated with no push in
\* between returns what it returned before.
C7_ReadOnly ==
    [][(pushes' = pushes)
          => /\ filter' = filter
             /\ panicked' = panicked
             /\ (observed # <<>> /\ observed' # <<>>
                    /\ Len(observed') = Len(observed))
                   => observed' = observed]_vars

\* C7 happens: a seeded filter whose bounds differ has been read.
C7_Witness ==
    /\ Seeded /\ pushes >= 2
    /\ observed # <<>>
    /\ filter.local_min < filter.average
    /\ filter.average < filter.local_max

\* C8. push_sample returns the updated average: the value the last
\* push_sample returned is the average the filter holds until the next push,
\* and the value ewma_average() returns in that time.
C8_ReturnsAverage ==
    ret # <<>> =>
        /\ ret[1] = filter.average
        /\ Len(observed) = 2 => observed[2] = ret[1]

\* C8 happens: after a steady-state push that moved the average to a value
\* other than the sample, the average has been read.
C8_Witness ==
    /\ pushes >= 2 /\ ret # <<>>
    /\ filter.sample_count >= 2
    /\ Len(observed) = 2
    /\ filter.average # last_value[1]
    /\ filter.average # filter.local_min

\* C9. Default weight equivalence: a filter built by default() and one built
\* by new(1, 100), given the same pushes, return the same value from every
\* push and hold the same average, local_min and local_max after it.
C9_DefaultIsOnePercent ==
    /\ twin.ret = ret
    /\ twin.self.average = filter.average
    /\ twin.self.local_min = filter.local_min
    /\ twin.self.local_max = filter.local_max

\* C9 happens: both filters have made a steady-state push that moved the
\* average of the default-built one off its seed.
C9_Witness ==
    /\ pushes >= 2 /\ ret # <<>> /\ ~overflowed
    /\ twin.self.sample_count >= 2
    /\ filter.average # filter.local_min
    /\ filter.average # filter.local_max

\* C10. Before the first push_sample, ewma_average() returns zero, whatever
\* the constructor and the weight.
C10_ZeroBeforeFirstPush ==
    (pushes = 0 /\ Len(observed) = 2) => observed[2] = 0

\* C10 happens: a filter built by new() with a nonzero numerator has been
\* read before any push.
C10_Witness ==
    /\ pushes = 0
    /\ Len(observed) = 2
    /\ filter.alpha_numerator # 0
    /\ filter # Default

-----------------------------------------------------------------------------
(* Steady-state pushes whose exact intermediate values are small.           *)

\* The step is a push_sample of last_value'[1] on a seeded filter.
SteadyPush == pushes' = pushes + 1 /\ filter.sample_count # 0

\* The distance from new_value to each of average, local_min and local_max,
\* and that distance times the numerator, are no larger than the largest
\* value of the type.
MagnitudesFit(self, new_value) ==
    \A x \in {self.average, self.local_min, self.local_max} :
        /\ Abs(new_value - x) <= TMax(int_type)
        /\ Abs(self.alpha_numerator * (new_value - x)) <= TMax(int_type)

\* A steady-state push on a filter with a proper-fraction weight, before any
\* overflow, with the counter below its largest value and every distance
\* small.
CleanSteadyPush ==
    /\ SteadyPush
    /\ ~overflowed
    /\ ValidWeight(filter)
    /\ filter.sample_count + 1 < 2 ^ usize_bits
    /\ MagnitudesFit(filter, last_value'[1])

\* C11. Integer average update: a steady-state push_sample(v) on a filter
\* holding average a returns and leaves the average a + q, where q is
\* numerator * (v - a) divided by the denominator and truncated toward zero,
\* whether v >= a or v < a; q is no larger in magnitude than the exact
\* numerator / denominator * (v - a) and not of the opposite sign.
C11_AverageUpdate ==
    [][CleanSteadyPush
          => LET v == last_value'[1]
                 a == filter.average
                 n == filter.alpha_numerator
                 d == filter.alpha_denominator
                 q == filter'.average - a
             IN  /\ ~panicked'
                 /\ filter'.average = a + TruncDiv(n * (v - a), d)
                 /\ Abs(q) * Abs(d) <= Abs(n * (v - a))
                 /\ q * (n * (v - a)) * d >= 0]_vars

\* C12. The fade rule uses the updated average: a steady-state
\* push_sample(v) with v not above the local_max held before leaves local_max
\* at local_max + weight * (v - local_max) if v is above the average this
\* call has just computed, and unchanged otherwise; with v not below the
\* local_min held before it leaves local_min at
\* local_min + weight * (v - local_min) if v is below that average, and
\* unchanged otherwise.
C12_FadeUsesUpdatedAverage ==
    [][CleanSteadyPush
          => LET v == last_value'[1]
                 n == filter.alpha_numerator
                 d == filter.alpha_denominator
                 a1 == filter'.average
             IN  /\ ~panicked'
                 /\ v <= filter.local_max
                      => filter'.local_max =
                            IF v > a1
                            THEN ExactBlend(n, d, v, filter.local_max)
                            ELSE filter.local_max
                 /\ v >= filter.local_min
                      => filter'.local_min =
                            IF v < a1
                            THEN ExactBlend(n, d, v, filter.local_min)
                            ELSE filter.local_min]_vars

\* C13. Unsigned integer types: on a filter over an unsigned type with a
\* proper-fraction weight, a steady-state push_sample of any sample, one
\* below the average or below local_max included, returns without any
\* intermediate value leaving the type and leaves the average, local_min and
\* local_max that the update rule gives over the unbounded integers.
C13_UnsignedExact ==
    [][(CleanSteadyPush /\ ~int_type.signed)
          => LET exact == ExactUpdate(filter, last_value'[1])
             IN  /\ ~panicked'
                 /\ ~overflowed'
                 /\ filter'.average = exact.average
                 /\ filter'.local_min = exact.local_min
                 /\ filter'.local_max = exact.local_max]_vars

\* The same comparison on the signed types, where the differences are
\* representable.
SignedExact ==
    [][(CleanSteadyPush /\ int_type.signed)
          => LET exact == ExactUpdate(filter, last_value'[1])
             IN  /\ ~panicked'
                 /\ ~overflowed'
                 /\ filter'.average = exact.average
                 /\ filter'.local_min = exact.local_min
                 /\ filter'.local_max = exact.local_max]_vars

\* C14 as stated. Zero denominator: on a filter over a signed type built by
\* new(n, 0) the first push_sample(v) returns v and every later push_sample
\* ends in a division-by-zero panic.
C14_ZeroDenominator ==
    (int_type.signed /\ filter.alpha_denominator = 0)
        => /\ pushes <= 1 => ~panicked
           /\ pushes = 1 => ret = last_value
           /\ pushes >= 2 => (panicked /\ panic_cause = "divide_by_zero")

\* C14. Zero denominator: new(n, 0) builds a filter, the first
\* push_sample(v) on it returns v, and every later push_sample panics instead
\* of returning: with a division by zero, or, where overflow is checked,
\* with the overflow of the subtraction or the multiplication that comes
\* before the division.
C14_ZeroDenominatorPanics ==
    filter.alpha_denominator = 0
        => /\ pushes <= 1 => (~panicked /\ panic_cause = "")
           /\ pushes = 1 => ret = last_value
           /\ pushes >= 2
                => /\ panicked
                   /\ filter.sample_count = 1
                   /\ panic_cause \in {"divide_by_zero", "overflow"}
                   /\ panic_cause = "overflow" => overflow_checks

\* C14 happens: the second push on a filter with denominator zero has
\* panicked on an overflow before it reached the division.
C14_Witness ==
    /\ filter.alpha_denominator = 0
    /\ pushes = 2
    /\ panicked
    /\ panic_cause = "overflow"

\* C15. The envelope contains the latest sample: with a proper-fraction
\* weight and no overflow so far, after every push_sample(v) that has
\* returned, local_min <= v <= local_max.
C15_EnvelopeHoldsSample ==
    (Seeded /\ ValidWeight(filter) /\ ~overflowed)
        => /\ filter.local_min <= last_value[1]
           /\ last_value[1] <= filter.local_max

\* C15 happens: a steady-state push of a sample strictly inside the range and
\* above the average, which takes the fade branch of local_max.
C15_Witness ==
    /\ Seeded /\ ValidWeight(filter) /\ ~overflowed
    /\ filter.sample_count >= 2
    /\ filter.local_min < last_value[1]
    /\ filter.average < last_value[1]
    /\ last_value[1] < filter.local_max

\* C16. The envelope only widens by snapping: with a proper-fraction weight
\* and no overflow, a steady-state push_sample(v) with
\* local_min <= v <= local_max before it leaves local_max no larger and
\* local_min no smaller; and after every push local_max is at most the
\* largest sample pushed so far and local_min at least the smallest.
C16_WidensOnlyBySnap ==
    [][(pushes' = pushes + 1 /\ ValidWeight(filter)
            /\ ~panicked' /\ ~overflowed')
          => LET v == last_value'[1]
             IN  /\ (filter.sample_count # 0
                        /\ filter.local_min <= v /\ v <= filter.local_max)
                      => /\ filter'.local_max <= filter.local_max
                         /\ filter'.local_min >= filter.local_min
                 /\ filter'.local_max <= extremes'[2]
                 /\ filter'.local_min >= extremes'[1]]_vars

\* C16 happens: a push of a sample inside the range has faded local_max
\* below the largest sample pushed.
C16_Witness ==
    /\ Seeded /\ ~overflowed
    /\ filter.sample_count >= 3
    /\ filter.local_min <= last_value[1]
    /\ last_value[1] < filter.local_max
    /\ filter.local_max < extremes[2]

\* C17. The average never overshoots the sample: with a proper-fraction
\* weight and no overflow, a steady-state push_sample(v) on a filter holding
\* average a leaves an average between a and v, and leaves a itself if
\* v = a.
C17_NoOvershoot ==
    [][(SteadyPush /\ ValidWeight(filter) /\ ~panicked' /\ ~overflowed')
          => LET v == last_value'[1]
                 a == filter.average
             IN  /\ Least(a, v) <= filter'.average
                 /\ filter'.average <= Greatest(a, v)
                 /\ v = a => filter'.average = a]_vars

\* C17 happens: steady-state pushes have left the average strictly between
\* the bounds, away from the seed and from the last sample.
C17_Witness ==
    /\ Seeded /\ ValidWeight(filter) /\ ~overflowed
    /\ filter.sample_count >= 2
    /\ filter.local_min < filter.average
    /\ filter.average < filter.local_max
    /\ filter.average # last_value[1]


====
